---- MODULE Spec2Model ----
(***************************************************************************)
(* Model of migration/client.go: kubernetesClient, a facade over the       *)
(* Kubernetes API (k.c, a kubernetes.Interface).                           *)
(*                                                                         *)
(* Each client runs one method call at a time.  A method is split at its   *)
(* backend calls: one action is one backend request together with the      *)
(* method's own code up to the next backend request (or its return), so    *)
(* that concurrent callers interleave exactly where the Go code blocks.    *)
(*                                                                         *)
(* The backend behind k.c is modelled as a store of objects with resource  *)
(* versions drawn from one counter; an Update is accepted only with the    *)
(* stored resource version.  Kinds share no storage, so the callers of one *)
(* run all work on one kind (runKind), chosen freely in Init.  The GetX    *)
(* and ListX methods hand the backend's answer through and are left out.   *)
(***************************************************************************)
EXTENDS Integers, Sequences, FiniteSets, TLC

(* ------------------------------ bounds --------------------------------- *)
MaxCalls == 2
MaxFaults == 2
NMod == 3
MaxWindow == 4
NumUpdaters == 3

\* The concurrent callers of the client.
Clients == {"c1", "c2"}

(* ----------------------------- vocabulary ------------------------------ *)
Names == {"a", "b"}
Namespaced == {"Job", "Pod", "PVC"}
Kinds == {"Job", "Pod", "PV", "PVC", "Namespace"}
Muts == {"setx", "sety", "bump"}

CreateMethods == {"CreateJob", "CreatePVC"}
DeleteMethods == {"DeleteJob", "DeletePod", "DeletePVC"}
UpdateMethods == {"UpdatePV", "UpdatePVC", "UpdateNamespace"}
Methods == CreateMethods \cup DeleteMethods \cup UpdateMethods

KindOf(m) ==
  CASE m \in {"CreateJob", "DeleteJob"} -> "Job"
    [] m = "DeletePod" -> "Pod"
    [] m \in {"CreatePVC", "DeletePVC", "UpdatePVC"} -> "PVC"
    [] m = "UpdatePV" -> "PV"
    [] m = "UpdateNamespace" -> "Namespace"

\* The namespace an object of a kind lives in: cluster-scoped kinds have none.
NsOf(kind) == IF kind \in Namespaced THEN "ns" ELSE ""

(* ------------------------------ entities ------------------------------- *)
\* A nil pointer.
Nil == [nil |-> TRUE]

\* An API object: identity, resource version, and content.
Entity(name, ns, rv, labels, n) ==
  [name |-> name, namespace |-> ns, rv |-> rv, labels |-> labels, n |-> n]

\* The zero value &T{}: what client-go hands back next to an error.
EmptyObj == Entity("", "", 0, {}, 0)

\* The caller-supplied updateFunc, applied in place to obj.
Mutate(obj, mut) ==
  CASE mut = "setx" -> [obj EXCEPT !.labels = @ \cup {"x"}]
    [] mut = "sety" -> [obj EXCEPT !.labels = @ \cup {"y"}]
    [] mut = "bump" -> [obj EXCEPT !.n = (@ + 1) % NMod]

(* ------------------------------- errors -------------------------------- *)
NoErr == [class |-> "nil", msg |-> ""]
Err(class) == [class |-> class, msg |-> ""]

\* errors.Wrapf: a new error with a message in front, the cause kept.
Wrapf(err, msg) == [class |-> err.class, msg |-> msg]

IsAlreadyExists(err) == err.class = "AlreadyExists"
IsNotFound(err) == err.class = "NotFound"
IsConflict(err) == err.class = "Conflict"

VARIABLES
  store,    \* backend: <<kind, name>> -> the stored object, or Nil
  rvNext,   \* backend: the next resource version to hand out
  pc,       \* per client: where its call stands
  call,     \* per client: the method called and its arguments
  local,    \* per client: the method's local object variable (job, pv, pvc, ns)
  ret,      \* per client: what the method returned, [obj, err]
  ctxDone,  \* per client: the call's context has been cancelled
  trace,    \* per client (history): the backend responses of the current call
  nmut,     \* per client (history): invocations of updateFunc in the current call
  lastGet,  \* per client (history): the object the last successful Get returned
  applied,  \* history: <<kind, name>> -> labels set by Updates that returned success
  faults,   \* injected backend failures so far
  ncalls,   \* calls started so far
  runKind,  \* the resource kind the callers of this run work on
  twin      \* history of a pair of runs from one backend state (NoTwin otherwise)

vars == <<store, rvNext, pc, call, local, ret, ctxDone, trace, nmut, lastGet,
          applied, faults, ncalls, runKind, twin>>

Slots == Kinds \X Names

NoCall == [method |-> "none", name |-> "", namespace |-> "", mut |-> "none", arg |-> Nil]
NoRet == [obj |-> Nil, err |-> NoErr]
NoTwin == [start |-> Nil, script |-> <<>>, first |-> Nil, reqs |-> <<>>]

Init ==
  /\ store = [s \in Slots |->
                IF s[2] = "a" THEN Entity("a", NsOf(s[1]), 1, {}, 0) ELSE Nil]
  /\ rvNext = 2
  /\ pc = [c \in Clients |-> "idle"]
  /\ call = [c \in Clients |-> NoCall]
  /\ local = [c \in Clients |-> Nil]
  /\ ret = [c \in Clients |-> NoRet]
  /\ ctxDone = [c \in Clients |-> FALSE]
  /\ trace = [c \in Clients |-> <<>>]
  /\ nmut = [c \in Clients |-> 0]
  /\ lastGet = [c \in Clients |-> Nil]
  /\ applied = [s \in Slots |-> {}]
  /\ faults = 0
  /\ ncalls = 0
  /\ runKind \in Kinds
  /\ twin = NoTwin


(* ------------------------------ backend -------------------------------- *)
\* What the API machinery can answer to a request of client c before the
\* request reaches the store: "none" lets it through; a cancelled context
\* fails every request with a cancellation error; otherwise the transport or
\* the server may fail it (bounded by MaxFaults).
Faults(c) ==
  IF ctxDone[c] THEN {"Cancelled"}
  ELSE {"none"} \cup (IF faults < MaxFaults THEN {"Other"} ELSE {})

\* An Update can also be answered with a Conflict the caller cannot attribute
\* to a write it knows of.
UpdateFaults(c) ==
  Faults(c) \cup (IF ~ctxDone[c] /\ faults < MaxFaults THEN {"Conflict"} ELSE {})

\* The object a typed client returns next to an error: nil or the zero value,
\* depending on the client implementation.
ErrObjs == {Nil, EmptyObj}

Stored(kind, ns, name) ==
  IF ns = NsOf(kind) /\ name \in Names THEN store[<<kind, name>>] ELSE Nil

\* The error classes a Get of a missing object can produce: NotFound, or a
\* request error for an empty name.
MissingClasses(name) == IF name = "" THEN {"NotFound", "Other"} ELSE {"NotFound"}

\* X(kind).Create(ctx, obj): [obj, err, store, rv].
BackendCreate(kind, ns, obj, f, eo) ==
  IF f # "none"
  THEN [obj |-> eo, err |-> Err(f), store |-> store, rv |-> rvNext]
  ELSE IF Stored(kind, ns, obj.name) # Nil
  THEN [obj |-> eo, err |-> Err("AlreadyExists"), store |-> store, rv |-> rvNext]
  ELSE LET new == [obj EXCEPT !.namespace = ns, !.rv = rvNext]
       IN [obj |-> new, err |-> NoErr,
           store |-> [store EXCEPT ![<<kind, obj.name>>] = new], rv |-> rvNext + 1]

\* X(kind).Get(ctx, name): [obj, err].
BackendGet(kind, ns, name, f, missing) ==
  IF f # "none" THEN [obj |-> EmptyObj, err |-> Err(f)]
  ELSE IF Stored(kind, ns, name) = Nil THEN [obj |-> EmptyObj, err |-> Err(missing)]
  ELSE [obj |-> Stored(kind, ns, name), err |-> NoErr]

\* X(kind).Delete(ctx, name): [err, store].
BackendDelete(kind, ns, name, f) ==
  IF f # "none" THEN [err |-> Err(f), store |-> store]
  ELSE IF Stored(kind, ns, name) = Nil THEN [err |-> Err("NotFound"), store |-> store]
  ELSE [err |-> NoErr, store |-> [store EXCEPT ![<<kind, name>>] = Nil]]

\* X(kind).Update(ctx, obj): [obj, err, store, rv].  The server compares the
\* submitted resource version with the stored one; an update that changes
\* nothing is answered with the stored object and no new version.
BackendUpdate(kind, ns, obj, f) ==
  LET cur == Stored(kind, ns, obj.name)
      new == [obj EXCEPT !.rv = rvNext]
  IN IF f # "none"
     THEN [obj |-> EmptyObj, err |-> Err(f), store |-> store, rv |-> rvNext]
     ELSE IF cur = Nil
     THEN [obj |-> EmptyObj, err |-> Err("NotFound"), store |-> store, rv |-> rvNext]
     ELSE IF obj.rv # cur.rv
     THEN [obj |-> EmptyObj, err |-> Err("Conflict"), store |-> store, rv |-> rvNext]
     ELSE IF obj = cur
     THEN [obj |-> cur, err |-> NoErr, store |-> store, rv |-> rvNext]
     ELSE [obj |-> new, err |-> NoErr,
           store |-> [store EXCEPT ![<<kind, obj.name>>] = new], rv |-> rvNext + 1]

(* --------------------------- the methods' code ------------------------- *)
\* Each operator is the method's code between two backend calls: from the
\* response (obj, err) to [next, ret, local, nmut], where next is "return",
\* "panic" or the backend call made next, and nmut counts the invocations of
\* updateFunc.
Step(next, robj, rerr, loc, k) ==
  [next |-> next, ret |-> [obj |-> robj, err |-> rerr], local |-> loc, nmut |-> k]

\* As AfterCreate, but returning what an accepted Create answered, without the
\* Get.
AfterCreateNoReadBack(obj, err) ==
  IF err # NoErr /\ ~IsAlreadyExists(err)
  THEN Step("return", Nil, Wrapf(err, "could not create"), obj, 0)
  ELSE IF obj = Nil
  THEN Step("panic", Nil, NoErr, obj, 0)
  ELSE IF err = NoErr
  THEN Step("return", obj, NoErr, obj, 0)
  ELSE Step("create_get", Nil, NoErr, obj, 0)

\* CreateJob/CreatePVC after Create returned: job, err := ...Create(ctx, job).
AfterCreate(obj, err) ==
  IF err # NoErr /\ ~IsAlreadyExists(err)
  THEN Step("return", Nil, Wrapf(err, "could not create"), obj, 0)
  ELSE IF obj = Nil
  THEN Step("panic", Nil, NoErr, obj, 0)
  ELSE Step("create_get", Nil, NoErr, obj, 0)

\* As AfterCreateGet, but handing back whatever the Get produced, error or not.
AfterCreateGetUnchecked(obj, err) ==
  Step("return", obj, NoErr, obj, 0)

\* CreateJob/CreatePVC after the Get returned.
AfterCreateGet(obj, err) ==
  IF err # NoErr
  THEN Step("return", Nil, err, obj, 0)
  ELSE Step("return", obj, NoErr, obj, 0)

\* As AfterDelete, but treating every failure of the Delete as "already gone".
AfterDeleteSwallow(method, err) ==
  IF method \in {"DeleteJob", "DeletePod"}
  THEN Step("return", Nil, NoErr, Nil, 0)
  ELSE Step("return", Nil, err, Nil, 0)

\* DeleteJob/DeletePod/DeletePVC after Delete returned.
AfterDelete(method, err) ==
  IF method \in {"DeleteJob", "DeletePod"}
  THEN IF err # NoErr /\ IsNotFound(err)
       THEN Step("return", Nil, NoErr, Nil, 0)
       ELSE Step("return", Nil, err, Nil, 0)
  ELSE Step("return", Nil, err, Nil, 0)

\* UpdateX after the first Get returned.
AfterFirstGet(obj, err, mut) ==
  IF err # NoErr
  THEN Step("return", Nil, Wrapf(err, "could not get PVC to update"), obj, 0)
  ELSE Step("upd_put", Nil, NoErr, Mutate(obj, mut), 1)

\* As AfterUpdate, but staying in the loop after an accepted Update.
AfterUpdateNoReturn(loc, obj, err) ==
  IF err = NoErr
  THEN Step("upd_get", Nil, NoErr, loc, 0)
  ELSE IF ~IsConflict(err)
  THEN Step("return", Nil, err, loc, 0)
  ELSE Step("upd_get", Nil, NoErr, loc, 0)

\* As AfterUpdate, but retrying after any failed Update.
AfterUpdateRetryAll(loc, obj, err) ==
  IF err = NoErr
  THEN Step("return", obj, NoErr, loc, 0)
  ELSE Step("upd_get", Nil, NoErr, loc, 0)

\* As AfterUpdate, but returning any failed Update to the caller.
AfterUpdateNoRetry(loc, obj, err) ==
  IF err = NoErr
  THEN Step("return", obj, NoErr, loc, 0)
  ELSE Step("return", Nil, err, loc, 0)

\* UpdateX after Update returned, loc being the object submitted.
AfterUpdate(loc, obj, err) ==
  IF err = NoErr
  THEN Step("return", obj, NoErr, loc, 0)
  ELSE IF ~IsConflict(err)
  THEN Step("return", Nil, err, loc, 0)
  ELSE Step("upd_get", Nil, NoErr, loc, 0)

\* As AfterRefetch, but giving up instead of trying again.
AfterRefetchGiveUp(loc, obj, err, mut) ==
  IF err # NoErr
  THEN Step("return", Nil, err, obj, 0)
  ELSE Step("return", Nil, Err("Other"), obj, 0)

\* As AfterRefetch, but submitting the new object under the resource version
\* held before.
AfterRefetchStaleVersion(loc, obj, err, mut) ==
  IF err # NoErr
  THEN Step("return", Nil, err, obj, 0)
  ELSE Step("upd_put", Nil, NoErr, [Mutate(obj, mut) EXCEPT !.rv = loc.rv], 1)

\* As AfterRefetch, but without calling updateFunc on the new object.
AfterRefetchNoMutate(loc, obj, err, mut) ==
  IF err # NoErr
  THEN Step("return", Nil, err, obj, 0)
  ELSE Step("upd_put", Nil, NoErr, obj, 0)

\* As AfterRefetch, but going on after a failed Get.
AfterRefetchIgnoreErr(loc, obj, err, mut) ==
  Step("upd_put", Nil, NoErr, Mutate(obj, mut), 1)

\* As AfterRefetch, but taking only the new resource version and keeping the
\* object mutated before.
AfterRefetchKeepObject(loc, obj, err, mut) ==
  IF err # NoErr
  THEN Step("return", Nil, err, obj, 0)
  ELSE Step("upd_put", Nil, NoErr, Mutate([loc EXCEPT !.rv = obj.rv], mut), 1)

\* As AfterRefetch, but calling updateFunc twice on the new object.
AfterRefetchMutateTwice(loc, obj, err, mut) ==
  IF err # NoErr
  THEN Step("return", Nil, err, obj, 0)
  ELSE Step("upd_put", Nil, NoErr, Mutate(Mutate(obj, mut), mut), 2)

\* UpdateX after the Get inside the loop returned: pv, err = ...Get(...).
AfterRefetch(loc, obj, err, mut) ==
  IF err # NoErr
  THEN Step("return", Nil, err, obj, 0)
  ELSE Step("upd_put", Nil, NoErr, Mutate(obj, mut), 1)


(* ------------------------------- actions ------------------------------- *)
\* The namespace a method addresses for obj: X(obj.Namespace) for a namespaced
\* kind, none for a cluster-scoped one.
NsUsed(kind, obj) == IF kind \in Namespaced THEN obj.namespace ELSE ""

Injected(f) == IF f \in {"Other", "Conflict"} THEN 1 ELSE 0

Resp(op, err) == [op |-> op, class |-> err.class]

\* The caller's objects: identity plus content the caller filled in.
ArgObjs(kind, name) == {Entity(name, NsOf(kind), 0, {}, 0)}

\* The objects a caller passes to Create: with or without a label of its own.
CreateArgs(kind, name) == {Entity(name, NsOf(kind), 0, L, 0) : L \in {{}, {"y"}}}

\* The objects a caller can pass to method m for a name.
ArgsFor(m, name) ==
  IF m \in CreateMethods THEN CreateArgs(KindOf(m), name) ELSE ArgObjs(KindOf(m), name)

\* Client c takes the step st after the backend answered with resp.
Advance(c, st, resp) ==
  /\ pc' = [pc EXCEPT ![c] = IF st.next = "return" THEN "done" ELSE st.next]
  /\ ret' = [ret EXCEPT ![c] = IF st.next = "return" THEN st.ret ELSE NoRet]
  /\ local' = [local EXCEPT ![c] = st.local]
  /\ nmut' = [nmut EXCEPT ![c] = @ + st.nmut]
  /\ trace' = [trace EXCEPT ![c] = Append(@, resp)]

\* A caller invokes a method.
Begin(c, m, name, mut, arg) ==
  /\ pc[c] = "idle"
  /\ ncalls < MaxCalls
  /\ KindOf(m) = runKind
  /\ ncalls' = ncalls + 1
  /\ call' = [call EXCEPT ![c] = [method |-> m, name |-> name,
                                  namespace |-> arg.namespace, mut |-> mut, arg |-> arg]]
  /\ pc' = [pc EXCEPT ![c] =
              IF m \in CreateMethods THEN "create"
              ELSE IF m \in DeleteMethods THEN "delete" ELSE "upd_get0"]
  /\ local' = [local EXCEPT ![c] = arg]
  /\ UNCHANGED <<store, rvNext, ret, ctxDone, trace, nmut, lastGet, applied, faults, runKind, twin>>

\* The caller's context is cancelled (or its deadline passes) during a call.
Cancel(c) ==
  /\ pc[c] \notin {"idle", "done", "panic"}
  /\ ~ctxDone[c]
  /\ faults < MaxFaults
  /\ ctxDone' = [ctxDone EXCEPT ![c] = TRUE]
  /\ faults' = faults + 1
  /\ UNCHANGED <<store, rvNext, pc, call, local, ret, trace, nmut, lastGet, applied, ncalls, runKind, twin>>

\* CreateJob, CreatePVC: the Create call and what follows it.
DoCreate(c) ==
  /\ pc[c] = "create"
  /\ \E f \in Faults(c), eo \in ErrObjs :
       LET kind == KindOf(call[c].method)
           r == BackendCreate(kind, NsUsed(kind, local[c]), local[c], f, eo)
       IN /\ store' = r.store
          /\ rvNext' = r.rv
          /\ faults' = faults + Injected(f)
          /\ Advance(c, AfterCreate(r.obj, r.err), Resp("Create", r.err))
  /\ UNCHANGED <<call, ctxDone, lastGet, applied, ncalls, runKind, twin>>

\* CreateJob, CreatePVC: the Get after the Create.
DoCreateGet(c) ==
  /\ pc[c] = "create_get"
  /\ \E f \in Faults(c), missing \in MissingClasses(local[c].name) :
       LET kind == KindOf(call[c].method)
           r == BackendGet(kind, NsUsed(kind, local[c]), local[c].name, f, missing)
       IN /\ faults' = faults + Injected(f)
          /\ lastGet' = [lastGet EXCEPT ![c] = IF r.err = NoErr THEN r.obj ELSE @]
          /\ Advance(c, AfterCreateGet(r.obj, r.err), Resp("Get", r.err))
  /\ UNCHANGED <<store, rvNext, call, ctxDone, applied, ncalls, runKind, twin>>

\* DeleteJob, DeletePod, DeletePVC.
DoDelete(c) ==
  /\ pc[c] = "delete"
  /\ \E f \in Faults(c) :
       LET kind == KindOf(call[c].method)
           r == BackendDelete(kind, call[c].namespace, call[c].name, f)
       IN /\ store' = r.store
          /\ applied' = IF r.err = NoErr
                        THEN [applied EXCEPT ![<<kind, call[c].name>>] = {}]
                        ELSE applied
          /\ faults' = faults + Injected(f)
          /\ Advance(c, AfterDelete(call[c].method, r.err), Resp("Delete", r.err))
  /\ UNCHANGED <<rvNext, call, ctxDone, lastGet, ncalls, runKind, twin>>

\* As FirstGetWith, but updateFunc is applied to the object the caller passed
\* in and the fetched one is dropped.
FirstGetTrustingCaller(c, f, missing) ==
  /\ pc[c] = "upd_get0"
  /\ LET kind == KindOf(call[c].method)
         r == BackendGet(kind, NsUsed(kind, local[c]), local[c].name, f, missing)
     IN /\ faults' = faults + Injected(f)
        /\ lastGet' = [lastGet EXCEPT ![c] = IF r.err = NoErr THEN r.obj ELSE @]
        /\ Advance(c, AfterFirstGet(local[c], r.err, call[c].mut), Resp("Get", r.err))
  /\ UNCHANGED <<store, rvNext, call, ctxDone, applied, ncalls, runKind>>

\* UpdatePV, UpdatePVC, UpdateNamespace: the Get before the loop, answered
\* by the backend as f (and missing) say.
FirstGetWith(c, f, missing) ==
  /\ pc[c] = "upd_get0"
  /\ LET kind == KindOf(call[c].method)
         r == BackendGet(kind, NsUsed(kind, local[c]), local[c].name, f, missing)
     IN /\ faults' = faults + Injected(f)
        /\ lastGet' = [lastGet EXCEPT ![c] = IF r.err = NoErr THEN r.obj ELSE @]
        /\ Advance(c, AfterFirstGet(r.obj, r.err, call[c].mut), Resp("Get", r.err))
  /\ UNCHANGED <<store, rvNext, call, ctxDone, applied, ncalls, runKind>>

\* UpdatePV, UpdatePVC, UpdateNamespace: the Get before the loop.
DoFirstGet(c) ==
  /\ pc[c] = "upd_get0"
  /\ \E f \in Faults(c), missing \in MissingClasses(local[c].name) :
       FirstGetWith(c, f, missing)
  /\ UNCHANGED twin

\* The labels a mutation sets.
LabelsOf(mut) == IF mut = "setx" THEN {"x"} ELSE IF mut = "sety" THEN {"y"} ELSE {}

\* UpdatePV, UpdatePVC, UpdateNamespace: the Update at the head of the loop,
\* answered by the backend as f says.
UpdateWith(c, f) ==
  /\ pc[c] = "upd_put"
  /\ LET kind == KindOf(call[c].method)
         r == BackendUpdate(kind, NsUsed(kind, local[c]), local[c], f)
         st == AfterUpdate(local[c], r.obj, r.err)
     IN /\ store' = r.store
        /\ rvNext' = r.rv
        /\ faults' = faults + Injected(f)
        /\ applied' = IF st.next = "return" /\ st.ret.err = NoErr
                      THEN [applied EXCEPT ![<<kind, local[c].name>>] =
                              @ \cup LabelsOf(call[c].mut)]
                      ELSE applied
        /\ Advance(c, st, Resp("Update", r.err))
  /\ UNCHANGED <<call, ctxDone, lastGet, ncalls, runKind>>

\* UpdatePV, UpdatePVC, UpdateNamespace: the Update at the head of the loop.
DoUpdate(c) ==
  /\ pc[c] = "upd_put"
  /\ \E f \in UpdateFaults(c) : UpdateWith(c, f)
  /\ UNCHANGED twin

\* UpdatePV, UpdatePVC, UpdateNamespace: the Get after a conflict, answered
\* by the backend as f (and missing) say.
RefetchWith(c, f, missing) ==
  /\ pc[c] = "upd_get"
  /\ LET kind == KindOf(call[c].method)
         r == BackendGet(kind, NsUsed(kind, local[c]), local[c].name, f, missing)
     IN /\ faults' = faults + Injected(f)
        /\ lastGet' = [lastGet EXCEPT ![c] = IF r.err = NoErr THEN r.obj ELSE @]
        /\ Advance(c, AfterRefetch(local[c], r.obj, r.err, call[c].mut),
                   Resp("Get", r.err))
  /\ UNCHANGED <<store, rvNext, call, ctxDone, applied, ncalls, runKind>>

\* UpdatePV, UpdatePVC, UpdateNamespace: the Get after a conflict.
DoRefetch(c) ==
  /\ pc[c] = "upd_get"
  /\ \E f \in Faults(c), missing \in MissingClasses(local[c].name) :
       RefetchWith(c, f, missing)
  /\ UNCHANGED twin

\* The caller takes the result; the client is free for its next call.
Return(c) ==
  /\ pc[c] = "done"
  /\ pc' = [pc EXCEPT ![c] = "idle"]
  /\ call' = [call EXCEPT ![c] = NoCall]
  /\ local' = [local EXCEPT ![c] = Nil]
  /\ ret' = [ret EXCEPT ![c] = NoRet]
  /\ ctxDone' = [ctxDone EXCEPT ![c] = FALSE]
  /\ trace' = [trace EXCEPT ![c] = <<>>]
  /\ nmut' = [nmut EXCEPT ![c] = 0]
  /\ lastGet' = [lastGet EXCEPT ![c] = Nil]
  /\ UNCHANGED <<store, rvNext, applied, faults, ncalls, runKind, twin>>

Next ==
  \/ \E c \in Clients, m \in Methods, name \in Names :
       \E mut \in (IF m \in UpdateMethods THEN Muts ELSE {"none"}),
          arg \in ArgsFor(m, name) : Begin(c, m, name, mut, arg)
  \/ \E c \in Clients : Cancel(c)
  \/ \E c \in Clients : DoCreate(c)
  \/ \E c \in Clients : DoCreateGet(c)
  \/ \E c \in Clients : DoDelete(c)
  \/ \E c \in Clients : DoFirstGet(c)
  \/ \E c \in Clients : DoUpdate(c)
  \/ \E c \in Clients : DoRefetch(c)
  \/ \E c \in Clients : Return(c)

Spec == Init /\ [][Next]_vars


(* ------------------------- reading the history ------------------------- *)
Count(tr, op) == Cardinality({i \in DOMAIN tr : tr[i].op = op})
Conflicts(tr) ==
  Cardinality({i \in DOMAIN tr : tr[i].op = "Update" /\ tr[i].class = "Conflict"})
Last(tr) == tr[Len(tr)]
Answered(c, op) == trace[c] # <<>> /\ Last(trace[c]).op = op
IsCreate(c) == call[c].method \in CreateMethods
IsDelete(c) == call[c].method \in DeleteMethods
IsUpdate(c) == call[c].method \in UpdateMethods

(* -------------------------------- claims ------------------------------- *)
\* C1: when the backend's Create reports AlreadyExists, Create returns success
\* and the entity stored under the name and namespace the caller passed in.
\* Stated for the calls nothing else disturbs: the context is not cancelled, no
\* backend request of the call was failed by injection, and the entity is
\* still stored.
C1_CreateIdempotent ==
  \A c \in Clients :
    ( /\ IsCreate(c)
      /\ pc[c] \in {"done", "panic"}
      /\ trace[c][1].class = "AlreadyExists"
      /\ \A i \in DOMAIN trace[c] : trace[c][i].class \notin {"Other", "Cancelled"}
      /\ Stored(KindOf(call[c].method), call[c].namespace, call[c].name) # Nil )
    => /\ pc[c] = "done"
       /\ ret[c].err = NoErr
       /\ ret[c].obj # Nil
       /\ ret[c].obj.name = call[c].name
       /\ ret[c].obj.namespace = call[c].namespace

\* C2: Delete of a name that does not exist returns success for every kind
\* that has a Delete, and any other backend failure is returned as an error.
C2_DeleteIdempotent ==
  \A c \in Clients :
    (IsDelete(c) /\ pc[c] = "done")
    => /\ trace[c][1].class = "NotFound" => ret[c].err = NoErr
       /\ trace[c][1].class \notin {"nil", "NotFound"}
            => ret[c].err.class = trace[c][1].class


\* C3: an UpdateX call that meets N conflicts and is then accepted returns
\* success after N+1 Gets, N+1 invocations of updateFunc and N+1 Updates, and
\* what it submitted is updateFunc applied once to the object of its last Get.
C3_Converges ==
  \A c \in Clients :
    (IsUpdate(c) /\ Answered(c, "Update") /\ Last(trace[c]).class = "nil")
    => LET n == Conflicts(trace[c])
       IN /\ pc[c] = "done"
          /\ ret[c].err = NoErr
          /\ Count(trace[c], "Get") = n + 1
          /\ Count(trace[c], "Update") = n + 1
          /\ nmut[c] = n + 1
          /\ Len(trace[c]) = 2 * n + 2
          /\ local[c] = Mutate(lastGet[c], call[c].mut)
          /\ ret[c].obj # Nil

C3_Witness ==
  \E c \in Clients :
    /\ IsUpdate(c) /\ pc[c] = "done" /\ ret[c].err = NoErr
    /\ call[c].mut = "bump"
    /\ Conflicts(trace[c]) = 2

\* C4: when an Update fails with an error that is not a Conflict, the call has
\* returned that error and made no further backend request.
C4_AbortsOnError ==
  \A c \in Clients :
    ( /\ IsUpdate(c)
      /\ Answered(c, "Update")
      /\ Last(trace[c]).class \notin {"nil", "Conflict"} )
    => /\ pc[c] = "done"
       /\ ret[c].obj = Nil
       /\ ret[c].err = Err(Last(trace[c]).class)

C4_Witness ==
  \E c \in Clients :
    /\ IsUpdate(c)
    /\ Answered(c, "Update")
    /\ Last(trace[c]).class = "Other"
    /\ Conflicts(trace[c]) = 1

\* C5: an UpdateX call never returns a Conflict, and after a Conflict from
\* Update its next step is the Get of the loop.  (A Get is answered with
\* NotFound, a request error or a cancellation, never with a Conflict.)
C5_ConflictNotSurfaced ==
  \A c \in Clients :
    IsUpdate(c)
    => /\ pc[c] = "done" => ret[c].err.class # "Conflict"
       /\ (Answered(c, "Update") /\ Last(trace[c]).class = "Conflict")
            => pc[c] = "upd_get"

C5_Witness ==
  \E c \in Clients :
    /\ IsUpdate(c) /\ pc[c] = "done"
    /\ ret[c].err # NoErr
    /\ Conflicts(trace[c]) >= 1

\* C6: when the first Get or a Get of the loop fails, the UpdateX call has
\* returned that error: updateFunc was not invoked for that iteration and no
\* Update followed.
C6_FailedFetchAborts ==
  \A c \in Clients :
    ( /\ IsUpdate(c)
      /\ Answered(c, "Get")
      /\ Last(trace[c]).class # "nil" )
    => /\ pc[c] = "done"
       /\ ret[c].obj = Nil
       /\ ret[c].err.class = Last(trace[c]).class
       /\ nmut[c] = Count(trace[c], "Get") - 1
       /\ Count(trace[c], "Update") = Count(trace[c], "Get") - 1

C6_Witness ==
  \E c \in Clients :
    /\ IsUpdate(c)
    /\ Answered(c, "Get")
    /\ Last(trace[c]).class = "NotFound"
    /\ Conflicts(trace[c]) >= 1


\* What an object holds besides its resource version.
Content(obj) == [obj EXCEPT !.rv = 0]

\* The slot an UpdateX call of client c writes.
Target(c) == <<KindOf(call[c].method), local[c].name>>

\* Client c's Update is accepted in this step.
Accepted(c) ==
  /\ IsUpdate(c) /\ pc[c] = "upd_put"
  /\ pc'[c] = "done" /\ ret'[c].err = NoErr

\* C7: with concurrent UpdateX calls on one entity no update is lost: every
\* accepted Update stores updateFunc applied to the object stored just before
\* it, and the stored object carries every label set by an UpdateX call that
\* returned success.
C7_NoLostUpdate ==
  /\ [][\A c \in Clients :
          Accepted(c)
          => /\ store[Target(c)] # Nil
             /\ store'[Target(c)] # Nil
             /\ Content(store'[Target(c)])
                  = Content(Mutate(store[Target(c)], call[c].mut))]_vars
  /\ [](\A s \in Slots : store[s] # Nil => applied[s] \subseteq store[s].labels)

C7_Witness ==
  \E c, d \in Clients :
    /\ c # d
    /\ IsUpdate(c) /\ pc[c] = "done" /\ ret[c].err = NoErr
    /\ IsUpdate(d) /\ pc[d] = "done" /\ ret[d].err = NoErr
    /\ call[c].name = call[d].name
    /\ call[c].mut = "setx" /\ call[d].mut = "sety"
    /\ Conflicts(trace[c]) + Conflicts(trace[d]) >= 1
    /\ store[Target(c)] # Nil
    /\ store[Target(c)].labels = {"x", "y"}

\* C8: the object an UpdateX call submits carries the resource version of the
\* call's latest Get and is updateFunc applied once to the object of that
\* Get; a Get has followed every conflict.
C8_SubmitsLatest ==
  \A c \in Clients :
    (IsUpdate(c) /\ (pc[c] = "upd_put" \/ Answered(c, "Update")))
    => /\ lastGet[c] # Nil
       /\ local[c].rv = lastGet[c].rv
       /\ local[c] = Mutate(lastGet[c], call[c].mut)
       /\ pc[c] = "upd_put"
            => /\ Answered(c, "Get") /\ Last(trace[c]).class = "nil"
               /\ Count(trace[c], "Get") = Conflicts(trace[c]) + 1
               /\ nmut[c] = Count(trace[c], "Get")

C8_Witness ==
  \E c \in Clients :
    /\ IsUpdate(c) /\ pc[c] = "upd_put"
    /\ call[c].mut = "bump"
    /\ Conflicts(trace[c]) >= 1
    /\ lastGet[c].n > 0

\* C9: when a backend request of a method is answered with a cancellation
\* error, the method has returned an error of that class: not success, and
\* not another round of the loop.
C9_CancelNotMasked ==
  \A c \in Clients :
    (trace[c] # <<>> /\ Last(trace[c]).class = "Cancelled")
    => /\ pc[c] = "done"
       /\ ret[c].obj = Nil
       /\ ret[c].err.class = "Cancelled"

C9_Witness ==
  \E c \in Clients :
    /\ IsUpdate(c) /\ Conflicts(trace[c]) >= 1
    /\ ctxDone[c]
    /\ Last(trace[c]).class = "Cancelled"

\* C10: Create returns an error and no entity when the Create fails with
\* anything but AlreadyExists (and then makes no Get) and when the Get after
\* the Create fails; it returns success only together with an entity read from
\* the backend.
C10_CreateFailures ==
  \A c \in Clients :
    (IsCreate(c) /\ trace[c] # <<>>)
    => /\ trace[c][1].class \notin {"nil", "AlreadyExists"}
            => /\ pc[c] = "done"
               /\ Len(trace[c]) = 1
               /\ ret[c].obj = Nil
               /\ ret[c].err.class = trace[c][1].class
       /\ (Answered(c, "Get") /\ Last(trace[c]).class # "nil")
            => /\ pc[c] = "done"
               /\ ret[c].obj = Nil
               /\ ret[c].err.class = Last(trace[c]).class
       /\ (pc[c] = "done" /\ ret[c].err = NoErr)
            => /\ Answered(c, "Get") /\ Last(trace[c]).class = "nil"
               /\ ret[c].obj = lastGet[c]
               /\ ret[c].obj \notin {Nil, EmptyObj}

C10_Witness ==
  \E c \in Clients :
    /\ IsCreate(c) /\ pc[c] = "done"
    /\ Len(trace[c]) = 2
    /\ trace[c][1].class = "nil"
    /\ trace[c][2].class = "NotFound"


\* C12: when the backend accepts the Create, the entity a successful Create
\* returns is the one the Get read under the requested name and namespace,
\* with a resource version the server handed out, not the caller's object.
C12_ReturnsReadBack ==
  \A c \in Clients :
    ( /\ IsCreate(c) /\ pc[c] = "done"
      /\ trace[c][1].class = "nil"
      /\ ret[c].err = NoErr )
    => /\ Len(trace[c]) = 2
       /\ trace[c][2] = [op |-> "Get", class |-> "nil"]
       /\ ret[c].obj = lastGet[c]
       /\ ret[c].obj.name = call[c].name
       /\ ret[c].obj.namespace = call[c].namespace
       /\ ret[c].obj.rv >= 2 /\ ret[c].obj.rv < rvNext
       /\ ret[c].obj # call[c].arg

\* A Create whose read-back differs in content from what was created: another
\* caller updated the entity between the Create and the Get.
C12_Witness ==
  \E c \in Clients :
    /\ IsCreate(c) /\ pc[c] = "done"
    /\ trace[c][1].class = "nil"
    /\ ret[c].err = NoErr
    /\ Content(ret[c].obj) # Content(call[c].arg)


\* The entity stored under the name and namespace client c passed in.
StoredFor(c) == Stored(KindOf(call[c].method), call[c].namespace, call[c].name)

\* Client c's Create is answered with AlreadyExists in this step.
Refused(c) ==
  /\ IsCreate(c) /\ pc[c] = "create"
  /\ trace'[c] = <<[op |-> "Create", class |-> "AlreadyExists"]>>

\* C16: a Create for a name that already exists leaves the stored entity as
\* it is and returns the stored entity, not the caller's.  The return is
\* stated for the calls nothing else disturbs, as in C1.
C16_CreateKeepsStored ==
  /\ [][\A c \in Clients : Refused(c) => store' = store /\ rvNext' = rvNext]_vars
  /\ [](\A c \in Clients :
          ( /\ IsCreate(c)
            /\ pc[c] \in {"done", "panic"}
            /\ trace[c][1].class = "AlreadyExists"
            /\ \A i \in DOMAIN trace[c] : trace[c][i].class \notin {"Other", "Cancelled"}
            /\ StoredFor(c) # Nil )
          => /\ pc[c] = "done"
             /\ ret[c].err = NoErr
             /\ ret[c].obj = StoredFor(c))


\* Client c's UpdateX call makes a backend request in this step.
Called(c) ==
  /\ IsUpdate(c) /\ pc[c] \in {"upd_get0", "upd_put", "upd_get"}
  /\ trace'[c] # trace[c]

\* The Updates of client c's call that the backend accepted.
AcceptedUpdates(c) ==
  {i \in DOMAIN trace[c] : trace[c][i] = [op |-> "Update", class |-> "nil"]}

\* C15 as stated: an UpdateX call changes the stored entity exactly in the step
\* in which its Update is accepted, so once when it returns success and never
\* when it returns an error; rejected Updates and Gets change nothing.
C15_ChangesExactlyOnce ==
  [][\A c \in Clients : Called(c) => (store' # store <=> Accepted(c))]_vars

\* C15 as amended: a call that returns success has had exactly one Update
\* accepted, its last, and one that returns an error none; only the accepted
\* Update can change the stored entity, and it does unless updateFunc leaves
\* the fetched entity as it is; rejected Updates and Gets change nothing.
C15_WritesOnce ==
  /\ [][\A c \in Clients :
          Called(c)
          => /\ store' # store => Accepted(c)
             /\ Accepted(c)
                  => (store' # store <=> Mutate(lastGet[c], call[c].mut) # lastGet[c])]_vars
  /\ [](\A c \in Clients :
          (IsUpdate(c) /\ pc[c] = "done")
          => IF ret[c].err = NoErr
             THEN AcceptedUpdates(c) = {Len(trace[c])}
             ELSE AcceptedUpdates(c) = {})

\* Two calls with the same updateFunc on one entity have both returned
\* success, one of them after a conflict: one Update stored the label, the
\* other was accepted without a change.
C15_Witness ==
  \E c, d \in Clients :
    /\ c # d
    /\ IsUpdate(c) /\ pc[c] = "done" /\ ret[c].err = NoErr
    /\ IsUpdate(d) /\ pc[d] = "done" /\ ret[d].err = NoErr
    /\ call[c].name = call[d].name
    /\ call[c].mut = "setx" /\ call[d].mut = "setx"
    /\ Conflicts(trace[d]) >= 1
    /\ ret[c].obj = ret[d].obj
    /\ StoredFor(c) = ret[c].obj


(* ------------------- a backend that always conflicts ------------------- *)
\* UpdateX against a backend that answers every Get with the stored object
\* and every Update with a Conflict.  The history keeps the latest MaxWindow
\* responses and counts updateFunc up to MaxWindow, so that a call that goes
\* on for ever moves through finitely many states.
UpdateKinds == {KindOf(m) : m \in UpdateMethods}

Window(tr, resp) ==
  IF Len(tr) < MaxWindow THEN Append(tr, resp) ELSE Append(Tail(tr), resp)

LoopAdvance(c, st, resp) ==
  /\ pc' = [pc EXCEPT ![c] = IF st.next = "return" THEN "done" ELSE st.next]
  /\ ret' = [ret EXCEPT ![c] = IF st.next = "return" THEN st.ret ELSE NoRet]
  /\ local' = [local EXCEPT ![c] = st.local]
  /\ nmut' = [nmut EXCEPT ![c] = IF @ + st.nmut > MaxWindow THEN MaxWindow ELSE @ + st.nmut]
  /\ trace' = [trace EXCEPT ![c] = Window(@, resp)]

LoopFirstGet(c) ==
  /\ pc[c] = "upd_get0"
  /\ LET kind == KindOf(call[c].method)
         r == BackendGet(kind, NsUsed(kind, local[c]), local[c].name, "none", "NotFound")
     IN /\ r.err = NoErr
        /\ lastGet' = [lastGet EXCEPT ![c] = r.obj]
        /\ LoopAdvance(c, AfterFirstGet(r.obj, r.err, call[c].mut), Resp("Get", r.err))
  /\ UNCHANGED <<store, rvNext, call, ctxDone, applied, faults, ncalls, runKind, twin>>

LoopUpdate(c) ==
  /\ pc[c] = "upd_put"
  /\ LET kind == KindOf(call[c].method)
         r == BackendUpdate(kind, NsUsed(kind, local[c]), local[c], "Conflict")
     IN /\ store' = r.store
        /\ rvNext' = r.rv
        /\ LoopAdvance(c, AfterUpdate(local[c], r.obj, r.err), Resp("Update", r.err))
  /\ UNCHANGED <<call, ctxDone, lastGet, applied, faults, ncalls, runKind, twin>>

LoopRefetch(c) ==
  /\ pc[c] = "upd_get"
  /\ LET kind == KindOf(call[c].method)
         r == BackendGet(kind, NsUsed(kind, local[c]), local[c].name, "none", "NotFound")
     IN /\ r.err = NoErr
        /\ lastGet' = [lastGet EXCEPT ![c] = r.obj]
        /\ LoopAdvance(c, AfterRefetch(local[c], r.obj, r.err, call[c].mut),
                       Resp("Get", r.err))
  /\ UNCHANGED <<store, rvNext, call, ctxDone, applied, faults, ncalls, runKind, twin>>

LoopStep(c) == LoopFirstGet(c) \/ LoopUpdate(c) \/ LoopRefetch(c)

InitLoop == Init /\ runKind \in UpdateKinds

\* The names under which an entity of the kind of method m is stored.
Existing(m) == {name \in Names : store[<<KindOf(m), name>>] # Nil}

NextLoop ==
  \/ \E c \in Clients, m \in UpdateMethods, mut \in Muts :
       \E name \in Existing(m) :
         \E arg \in ArgsFor(m, name) : Begin(c, m, name, mut, arg)
  \/ \E c \in Clients : LoopFirstGet(c)
  \/ \E c \in Clients : LoopUpdate(c)
  \/ \E c \in Clients : LoopRefetch(c)

\* A call that can take a step takes it: the method runs on without waiting.
SpecLoop == InitLoop /\ [][NextLoop]_vars /\ \A c \in Clients : WF_vars(LoopStep(c))

\* C13: the loop has no cap.  Against a backend that answers every Update with
\* a Conflict and every Get with the object, an UpdateX call never returns:
\* after each Conflict it stands at the Get of the loop, after each Get at the
\* next Update, and it submits again and again.
C13_NeverReturns ==
  /\ [](\A c \in Clients :
          /\ pc[c] \notin {"done", "panic"}
          /\ (Answered(c, "Update") => pc[c] = "upd_get")
          /\ (Answered(c, "Get") => pc[c] = "upd_put"))
  /\ \A c \in Clients : (pc[c] = "upd_get") ~> (pc[c] = "upd_put")
  /\ \A c \in Clients : (pc[c] = "upd_put") ~> (pc[c] = "upd_get")

\* A call whose latest MaxWindow responses are all from the loop: Conflict and
\* Get in turn, with updateFunc invoked MaxWindow times or more.
C13_Witness ==
  \E c \in Clients :
    /\ Len(trace[c]) = MaxWindow
    /\ trace[c][1] = [op |-> "Update", class |-> "Conflict"]
    /\ Conflicts(trace[c]) * 2 >= MaxWindow
    /\ nmut[c] = MaxWindow


(* ------------- concurrent updaters of one entity, no failures ---------- *)
\* NumUpdaters callers each make one UpdateX call on the entity "a" of one
\* kind, each with an updateFunc of its own choice.  Nothing else writes, no
\* request fails and no context is cancelled, so an Update is answered with a
\* Conflict only when the stored resource version is not the submitted one.
Updaters == 1..NumUpdaters

UpdateCalls(kind) ==
  {[method |-> m, name |-> "a", namespace |-> NsOf(kind), mut |-> mut, arg |-> arg] :
     m \in {u \in UpdateMethods : KindOf(u) = kind}, mut \in Muts,
     arg \in ArgObjs(kind, "a")}

InitK ==
  /\ store = [s \in Slots |->
                IF s[2] = "a" THEN Entity("a", NsOf(s[1]), 1, {}, 0) ELSE Nil]
  /\ rvNext = 2
  /\ runKind \in UpdateKinds
  /\ call \in [Updaters -> UpdateCalls(runKind)]
  /\ pc = [c \in Updaters |-> "upd_get0"]
  /\ local = [c \in Updaters |-> call[c].arg]
  /\ ret = [c \in Updaters |-> NoRet]
  /\ ctxDone = [c \in Updaters |-> FALSE]
  /\ trace = [c \in Updaters |-> <<>>]
  /\ nmut = [c \in Updaters |-> 0]
  /\ lastGet = [c \in Updaters |-> Nil]
  /\ applied = [s \in Slots |-> {}]
  /\ faults = MaxFaults
  /\ ncalls = NumUpdaters
  /\ twin = NoTwin

UpdaterStep(c) == DoFirstGet(c) \/ DoUpdate(c) \/ DoRefetch(c)

NextK ==
  \/ \E c \in Updaters : DoFirstGet(c)
  \/ \E c \in Updaters : DoUpdate(c)
  \/ \E c \in Updaters : DoRefetch(c)

\* Each caller's goroutine keeps running: a call that can take a step takes it.
SpecK == InitK /\ [][NextK]_vars /\ \A c \in Updaters : WF_vars(UpdaterStep(c))

RECURSIVE ConflictSum(_)
ConflictSum(S) ==
  IF S = {} THEN 0
  ELSE LET c == CHOOSE x \in S : TRUE
       IN Conflicts(trace[c]) + ConflictSum(S \ {c})

AllReturned == \A c \in Updaters : pc[c] = "done" /\ ret[c].err = NoErr

\* C14: with NumUpdaters concurrent UpdateX calls on one entity, no other
\* writer and no failure, a call that met a Conflict finds a newer version
\* written by another call that returned success; all calls eventually return
\* success; and the conflicts met in total are at most K*(K-1)/2.
C14_Progress ==
  /\ [](\A c \in Updaters :
          pc[c] = "upd_get"
          => \E d \in Updaters \ {c} :
               /\ pc[d] = "done" /\ ret[d].err = NoErr
               /\ ret[d].obj.rv > lastGet[c].rv)
  /\ [](2 * ConflictSum(Updaters) <= NumUpdaters * (NumUpdaters - 1))
  /\ [](\A c \in Updaters : pc[c] = "done" => ret[c].err = NoErr)
  /\ <>AllReturned

\* All calls have returned success and the bound on the conflicts is met.
C14_Witness ==
  /\ AllReturned
  /\ 2 * ConflictSum(Updaters) = NumUpdaters * (NumUpdaters - 1)


(* --------------- two runs of one call from one backend state ----------- *)
\* The same UpdateX call is run twice from the same backend state: first by
\* "c1" with the object A passed in, then, the backend put back to where it
\* started, by "c2" with the object B.  A and B have the same name and
\* namespace and differ in everything else.  The backend answers the i-th
\* request of the second run as it chose to answer the i-th of the first
\* (twin.script).  twin.reqs records the requests each run sends.

\* The objects a caller may hold for the entity called name: stale or current
\* resource version, any content.
CallerObjs(kind, name) ==
  {Entity(name, NsOf(kind), rv, L, n) : rv \in {0, 1}, L \in {{}, {"x"}}, n \in {0, 1}}

InitPair ==
  /\ store = [s \in Slots |->
                IF s[2] = "a" THEN Entity("a", NsOf(s[1]), 1, {}, 0) ELSE Nil]
  /\ rvNext = 2
  /\ runKind \in UpdateKinds
  /\ \E m \in UpdateMethods, name \in Names, mut \in Muts :
       /\ KindOf(m) = runKind
       /\ \E A \in CallerObjs(runKind, name), B \in CallerObjs(runKind, name) :
            /\ A # B
            /\ call = [c \in Clients |->
                         [method |-> m, name |-> name, namespace |-> A.namespace,
                          mut |-> mut, arg |-> IF c = "c1" THEN A ELSE B]]
  /\ pc = [c \in Clients |-> IF c = "c1" THEN "upd_get0" ELSE "idle"]
  /\ local = [c \in Clients |-> IF c = "c1" THEN call[c].arg ELSE Nil]
  /\ ret = [c \in Clients |-> NoRet]
  /\ ctxDone = [c \in Clients |-> FALSE]
  /\ trace = [c \in Clients |-> <<>>]
  /\ nmut = [c \in Clients |-> 0]
  /\ lastGet = [c \in Clients |-> Nil]
  /\ applied = [s \in Slots |-> {}]
  /\ faults = 0
  /\ ncalls = 2
  /\ twin = [start |-> [store |-> store, rv |-> rvNext], script |-> <<>>,
             first |-> Nil, reqs |-> [c \in Clients |-> <<>>]]

\* The request client c sends next: Get(ctx, pv.Name) or Update(ctx, pv).
Request(c) ==
  LET kind == KindOf(call[c].method)
  IN [op |-> IF pc[c] = "upd_put" THEN "Update" ELSE "Get",
      namespace |-> NsUsed(kind, local[c]), name |-> local[c].name,
      obj |-> IF pc[c] = "upd_put" THEN local[c] ELSE Nil]

\* Client c sends its next request and the backend answers it as f says.
PairCall(c, f) ==
  \/ \E missing \in MissingClasses(local[c].name) : FirstGetWith(c, f, missing)
  \/ UpdateWith(c, f)
  \/ \E missing \in MissingClasses(local[c].name) : RefetchWith(c, f, missing)

\* A step of the first run: the backend is free in its answer.
FirstRun ==
  /\ pc["c1"] \in {"upd_get0", "upd_put", "upd_get"}
  /\ \E f \in (IF pc["c1"] = "upd_put" THEN UpdateFaults("c1") ELSE Faults("c1")) :
       /\ PairCall("c1", f)
       /\ twin' = [twin EXCEPT !.script = Append(@, f),
                               !.reqs["c1"] = Append(@, Request("c1"))]

\* The first run is over: its outcome is kept and the backend is put back.
Rewind ==
  /\ pc["c1"] \in {"done", "panic"}
  /\ twin.first = Nil
  /\ twin' = [twin EXCEPT !.first = [store |-> store, rv |-> rvNext]]
  /\ store' = twin.start.store
  /\ rvNext' = twin.start.rv
  /\ faults' = 0
  /\ applied' = [s \in Slots |-> {}]
  /\ pc' = [pc EXCEPT !["c2"] = "upd_get0"]
  /\ local' = [local EXCEPT !["c2"] = call["c2"].arg]
  /\ UNCHANGED <<call, ret, ctxDone, trace, nmut, lastGet, ncalls, runKind>>

\* A step of the second run: the backend answers as it did in the first.
SecondRun ==
  /\ pc["c2"] \in {"upd_get0", "upd_put", "upd_get"}
  /\ Len(trace["c2"]) < Len(twin.script)
  /\ PairCall("c2", twin.script[Len(trace["c2"]) + 1])
  /\ twin' = [twin EXCEPT !.reqs["c2"] = Append(@, Request("c2"))]

NextPair == FirstRun \/ Rewind \/ SecondRun

SpecPair == InitPair /\ [][NextPair]_vars

IsPrefix(s, t) == Len(s) <= Len(t) /\ s = SubSeq(t, 1, Len(s))

\* C11: two UpdateX calls from the same backend state, with the same name,
\* namespace and updateFunc and the same backend behaviour, whose passed-in
\* objects differ in resource version, labels or fields, send the same
\* requests, get the same answers, return the same result and leave the same
\* stored state.
C11_IgnoresCallerEntity ==
  twin.first # Nil
  => /\ IsPrefix(twin.reqs["c2"], twin.reqs["c1"])
     /\ IsPrefix(trace["c2"], trace["c1"])
     /\ pc["c2"] \in {"done", "panic"} => Len(trace["c2"]) = Len(trace["c1"])
     /\ Len(trace["c2"]) = Len(trace["c1"])
        => /\ pc["c2"] = pc["c1"]
           /\ ret["c2"] = ret["c1"]
           /\ twin.reqs["c2"] = twin.reqs["c1"]
           /\ store = twin.first.store
           /\ rvNext = twin.first.rv

\* Both runs are over, the passed-in objects differed in resource version and
\* in content, the call went through a conflict and changed the stored entity.
C11_Witness ==
  /\ twin.first # Nil
  /\ pc["c2"] = "done" /\ ret["c2"].err = NoErr
  /\ call["c1"].arg.rv # call["c2"].arg.rv
  /\ call["c1"].arg.labels # call["c2"].arg.labels
  /\ Conflicts(trace["c2"]) >= 1
  /\ store # twin.start.store

====
